---- MODULE Spec2Model ----
(***************************************************************************)
(* Model of app.py, the Streamlit portal: the three filename index         *)
(* builders (build_file_dict_from_csv, build_file_dict_from_folder,        *)
(* build_quality_dicts), plot_csv and the Meteorological Variable,         *)
(* Quality, Market and What If sections.                                   *)
(*                                                                         *)
(* A Python str is a sequence of one-character strings, so that split,     *)
(* join, startswith, replace, strip and lower are computed character by    *)
(* character as CPython computes them.  A dict is a function whose DOMAIN  *)
(* is its key set.  One script run (Streamlit reruns the whole script on   *)
(* every widget change) is one action.                                     *)
(***************************************************************************)
EXTENDS Naturals, Sequences, FiniteSets, TLC

VARIABLES
  fs,             \* folder name -> [kind, listing]: the directories on disk
  csv_columns,    \* path -> the columns pd.read_csv gives (<<>>: it raises)
  broken_images,  \* the paths on which Image.open raises
  section,        \* the "Select Section" radio of the last run
  sel,            \* the selectbox values of the last run
  file_dict,      \* the script's globals after the last run
  base_dict,
  perc_dict,
  market_dict,
  ui              \* what the last run rendered

vars == <<fs, csv_columns, broken_images, section, sel,
          file_dict, base_dict, perc_dict, market_dict, ui>>

(***************************************************************************)
(* Bounds and input universes                                              *)
(***************************************************************************)
MaxFiles == 2

\* ---------------------------------------------------------------- str
Whitespace == {" ", "\t", "\n", "\r"}

UpperCase == <<"A","B","C","D","E","F","G","H","I","J","K","L","M",
               "N","O","P","Q","R","S","T","U","V","W","X","Y","Z">>
LowerCase == <<"a","b","c","d","e","f","g","h","i","j","k","l","m",
               "n","o","p","q","r","s","t","u","v","w","x","y","z">>

LowerOf == [i \in 1..Len(UpperCase) |-> LowerCase[i]]
UpperIndex == [c \in {UpperCase[i] : i \in 1..Len(UpperCase)} |->
                 CHOOSE i \in 1..Len(UpperCase) : UpperCase[i] = c]

LowerChar(c) == IF c \in DOMAIN UpperIndex THEN LowerOf[UpperIndex[c]] ELSE c

\* str.lower()
Lower(s) == [i \in 1..Len(s) |-> LowerChar(s[i])]

RECURSIVE SplitFrom(_, _, _, _)
\* the pieces of s from position start on, i the position being scanned
SplitFrom(s, sep, start, i) ==
  IF i > Len(s) THEN <<SubSeq(s, start, Len(s))>>
  ELSE IF s[i] = sep
  THEN <<SubSeq(s, start, i - 1)>> \o SplitFrom(s, sep, i + 1, i + 1)
  ELSE SplitFrom(s, sep, start, i + 1)

\* str.split(sep) with a one-character separator
Split(s, sep) == SplitFrom(s, sep, 1, 1)

RECURSIVE Join(_, _)
\* sep.join(parts)
Join(parts, sep) ==
  IF Len(parts) = 0 THEN <<>>
  ELSE IF Len(parts) = 1 THEN parts[1]
  ELSE parts[1] \o sep \o Join(Tail(parts), sep)

\* str.startswith(p), str.endswith(p)
StartsWith(s, p) == Len(p) <= Len(s) /\ SubSeq(s, 1, Len(p)) = p
EndsWith(s, p) == Len(p) <= Len(s) /\ SubSeq(s, Len(s) - Len(p) + 1, Len(s)) = p

RECURSIVE FindFrom(_, _, _)
FindFrom(s, old, k) ==
  IF k + Len(old) - 1 > Len(s) THEN 0
  ELSE IF SubSeq(s, k, k + Len(old) - 1) = old THEN k
  ELSE FindFrom(s, old, k + 1)

\* str.find(old) + 1: the first position where old occurs in s, 0 when none
Find(s, old) == FindFrom(s, old, 1)

\* str.replace(old, new, 1)
ReplaceFirst(s, old, new) ==
  LET k == Find(s, old)
  IN IF k = 0 THEN s
     ELSE SubSeq(s, 1, k - 1) \o new \o SubSeq(s, k + Len(old), Len(s))

RECURSIVE ReplaceAll(_, _, _)
\* str.replace(old, new), old non-empty: every occurrence, left to right
ReplaceAll(s, old, new) ==
  LET k == Find(s, old)
  IN IF k = 0 THEN s
     ELSE SubSeq(s, 1, k - 1) \o new
          \o ReplaceAll(SubSeq(s, k + Len(old), Len(s)), old, new)

RECURSIVE LStrip(_)
LStrip(s) == IF Len(s) > 0 /\ s[1] \in Whitespace THEN LStrip(Tail(s)) ELSE s
RECURSIVE RStrip(_)
RStrip(s) ==
  IF Len(s) > 0 /\ s[Len(s)] \in Whitespace THEN RStrip(SubSeq(s, 1, Len(s) - 1)) ELSE s

\* str.strip()
Strip(s) == RStrip(LStrip(s))

\* ---------------------------------------------------------------- dict
EmptyDict == <<>>

\* d[k] = v
Put(d, k, v) == [x \in (DOMAIN d) \cup {k} |-> IF x = k THEN v ELSE d[x]]

\* d.setdefault(k, {}) as a value: the entry under k, a new {} when absent
SetDefault(d, k) == IF k \in DOMAIN d THEN d[k] ELSE EmptyDict

\* d.setdefault(a, {}).setdefault(b, {})[c] = v
Insert3(d, a, b, c, v) ==
  LET da == SetDefault(d, a)
      db == SetDefault(da, b)
  IN Put(d, a, Put(da, b, Put(db, c, v)))

\* d.setdefault(a, {}).setdefault(b, {}).setdefault(c, {})[e] = v
Insert4(d, a, b, c, e, v) ==
  LET da == SetDefault(d, a)
      db == SetDefault(da, b)
      dc == SetDefault(db, c)
  IN Put(d, a, Put(da, b, Put(db, c, Put(dc, e, v))))

\* The leaves (file paths) of a three- and a four-level index
Leaves3(d) ==
  UNION {UNION {{d[a][b][c] : c \in DOMAIN d[a][b]} : b \in DOMAIN d[a]} : a \in DOMAIN d}
Leaves4(d) == UNION {Leaves3(d[a]) : a \in DOMAIN d}

\* A script global: unset, None, or a dict
Unset == [set |-> FALSE, none |-> TRUE, d |-> EmptyDict]
None == [set |-> TRUE, none |-> TRUE, d |-> EmptyDict]
Dict(d) == [set |-> TRUE, none |-> FALSE, d |-> d]
\* Python truth of a value that is None or a dict
Truthy(v) == ~v.none /\ DOMAIN v.d # {}

\* ---------------------------------------------------------------- os
CsvFolder == "Meteorological Variables"
QualityFolder == "Quality"
MarketFolder == "Market"
Folders == {CsvFolder, QualityFolder, MarketFolder}

\* os.path.exists(folder)
Exists(folder) == fs[folder].kind # "missing"
\* os.listdir(folder) raises NotADirectoryError on a path that is a file
ListdirRaises(folder) == fs[folder].kind = "file"
Listdir(folder) == fs[folder].listing
\* os.path.join(folder, filename)
PathJoin(folder, filename) == <<folder, filename>>

\* [f for f in files if keep(f)]
RECURSIVE FilterCsv(_)
FilterCsv(files) ==
  IF files = <<>> THEN <<>>
  ELSE (IF EndsWith(Head(files), <<".","c","s","v">>) THEN <<Head(files)>> ELSE <<>>)
       \o FilterCsv(Tail(files))
RECURSIVE FilterPng(_)
FilterPng(files) ==
  IF files = <<>> THEN <<>>
  ELSE (IF EndsWith(Head(files), <<".","p","n","g">>) THEN <<Head(files)>> ELSE <<>>)
       \o FilterPng(Tail(files))
RECURSIVE FilterImage(_)
FilterImage(files) ==
  IF files = <<>> THEN <<>>
  ELSE (IF EndsWith(Lower(Head(files)), <<".","j","p","g">>) \/ EndsWith(Lower(Head(files)), <<".","p","n","g">>)
        THEN <<Head(files)>> ELSE <<>>)
       \o FilterImage(Tail(files))

\* A message given to st.error / st.warning / st.info
Msg(kind, folder, file) == [kind |-> kind, folder |-> folder, file |-> file]

\* ---------------------------------------------------------------- decoding
\* filename.split(".")[0].split("_")
Parts(filename) == Split(Split(filename, ".")[1], "_")

\* f"{district}-{block}"
DistrictBlock(parts) == parts[2] \o <<"-">> \o parts[3]

\* "_".join(parts[3:])
Variable(parts) == Join(SubSeq(parts, 4, Len(parts)), <<"_">>)

\* Faulty variant: the text after the "since" prefix, a later "since" kept
YearStrAfterPrefix(tok) == Strip(SubSeq(tok, 6, Len(tok)))

\* var_parts[-1].replace("since", "").strip()
YearStr(tok) == Strip(ReplaceAll(tok, <<"s","i","n","c","e">>, <<>>))

\* var_label before the Temp relabel
SinceLabel(var_parts) ==
  LET n == Len(var_parts)
  IN IF n >= 2 /\ StartsWith(var_parts[n], <<"s","i","n","c","e">>)
     THEN Join(SubSeq(var_parts, 1, n - 1), <<"_">>) \o <<" ","s","i","n","c","e"," ">> \o YearStr(var_parts[n])
     ELSE Join(var_parts, <<"_">>)

\* Faulty variant: replace without the count of 1, every "Temp" of the label
RelabelEvery(var_label) ==
  IF StartsWith(var_label, <<"T","e","m","p">>)
  THEN ReplaceAll(var_label, <<"T","e","m","p">>, <<"T","e","m","p","e","r","a","t","u","r","e">>)
  ELSE var_label

\* Faulty variant: no startswith test, the first "Temp" wherever it is
RelabelAnywhere(var_label) == ReplaceFirst(var_label, <<"T","e","m","p">>, <<"T","e","m","p","e","r","a","t","u","r","e">>)

\* if var_label.startswith("Temp"): var_label.replace("Temp", "Temperature", 1)
Relabel(var_label) ==
  IF StartsWith(var_label, <<"T","e","m","p">>)
  THEN ReplaceFirst(var_label, <<"T","e","m","p">>, <<"T","e","m","p","e","r","a","t","u","r","e">>)
  ELSE var_label

\* var_label as build_file_dict_from_folder stores it
VarLabel(parts) == Relabel(SinceLabel(SubSeq(parts, 4, Len(parts))))

\* The descriptor build_file_dict_from_folder decodes from an accepted filename
Decode(filename) ==
  LET parts == Parts(filename)
  IN [state |-> parts[1], district |-> parts[2], block |-> parts[3],
      label |-> VarLabel(parts)]

\* The variable segment a label is written as: "Temperature..." abbreviated to
\* "Temp...", "<name> since <year>" written <name>_since<year>
Segment(label) ==
  LET short == IF StartsWith(label, <<"T","e","m","p","e","r","a","t","u","r","e">>)
               THEN <<"T","e","m","p">> \o SubSeq(label, 12, Len(label))
               ELSE label
  IN ReplaceFirst(short, <<" ","s","i","n","c","e"," ">>, <<"_","s","i","n","c","e">>)

\* The filename of a descriptor by the grammar State_District_Block_Variable.ext
Encode(x) ==
  x.state \o <<"_">> \o x.district \o <<"_">> \o x.block \o <<"_">> \o Segment(x.label) \o <<".","p","n","g">>

\* ---------------------------------------------------------------- builders
BuildResult(ret, errors, warnings, raised) ==
  [ret |-> ret, errors |-> errors, warnings |-> warnings, raised |-> raised]

\* Faulty variant: the CSV builder decoding the label as the image builder does
CsvStepRelabelling(folder, d, filename) ==
  LET parts == Parts(filename)
  IN Insert3(d, parts[1], DistrictBlock(parts), VarLabel(parts), PathJoin(folder, filename))

\* One iteration of the loop of build_file_dict_from_csv on an accepted file
CsvStep(folder, d, filename) ==
  LET parts == Parts(filename)
  IN Insert3(d, parts[1], DistrictBlock(parts), Variable(parts), PathJoin(folder, filename))

RECURSIVE CsvLoop(_, _, _, _)
CsvLoop(folder, files, d, warnings) ==
  IF files = <<>> THEN [d |-> d, warnings |-> warnings]
  ELSE LET filename == Head(files)
       IN IF Len(Parts(filename)) < 4
          THEN CsvLoop(folder, Tail(files), d,
                       warnings \cup {Msg("not enough parts", folder, filename)})
          ELSE CsvLoop(folder, Tail(files), CsvStep(folder, d, filename), warnings)

build_file_dict_from_csv(folder) ==
  IF ~Exists(folder)
  THEN BuildResult(None, {Msg("folder not found", folder, <<>>)}, {}, FALSE)
  ELSE IF ListdirRaises(folder)
  THEN BuildResult(Unset, {}, {}, TRUE)
  ELSE LET csv_files == FilterCsv(Listdir(folder))
       IN IF csv_files = <<>>
          THEN BuildResult(None, {Msg("no CSV files found", folder, <<>>)}, {}, FALSE)
          ELSE LET r == CsvLoop(folder, csv_files, EmptyDict, {})
               IN BuildResult(Dict(r.d), {}, r.warnings, FALSE)

\* One iteration of the loop of build_file_dict_from_folder on an accepted file
FolderStep(folder, d, filename) ==
  LET parts == Parts(filename)
  IN Insert3(d, parts[1], DistrictBlock(parts), VarLabel(parts), PathJoin(folder, filename))

RECURSIVE FolderLoop(_, _, _, _)
FolderLoop(folder, files, d, warnings) ==
  IF files = <<>> THEN [d |-> d, warnings |-> warnings]
  ELSE LET filename == Head(files)
       IN IF Len(Parts(filename)) < 4
          THEN FolderLoop(folder, Tail(files), d,
                          warnings \cup {Msg("not enough parts", folder, filename)})
          ELSE FolderLoop(folder, Tail(files), FolderStep(folder, d, filename), warnings)

build_file_dict_from_folder(folder) ==
  IF ~Exists(folder)
  THEN BuildResult(None, {Msg("folder not found", folder, <<>>)}, {}, FALSE)
  ELSE IF ListdirRaises(folder)
  THEN BuildResult(Unset, {}, {}, TRUE)
  ELSE LET png_files == FilterPng(Listdir(folder))
       IN IF png_files = <<>>
          THEN BuildResult(None, {Msg("no PNG files found", folder, <<>>)}, {}, FALSE)
          ELSE LET r == FolderLoop(folder, png_files, EmptyDict, {})
               IN BuildResult(Dict(r.d), {}, r.warnings, FALSE)

\* Faulty variant: the tokens from index 4 on merged into a compound percentile key
QualityStepCompound(folder, base, perc, filename) ==
  LET parts == Parts(filename)
      file_path == PathJoin(folder, filename)
  IN IF Len(parts) = 4
     THEN [base |-> Insert3(base, parts[1], DistrictBlock(parts), parts[4], file_path),
           perc |-> perc]
     ELSE [base |-> base,
           perc |-> Insert4(perc, parts[1], DistrictBlock(parts), parts[4],
                            Join(SubSeq(parts, 5, Len(parts)), <<"_">>), file_path)]

\* One iteration of the loop of build_quality_dicts on an accepted file:
\* the pair (base_dict, perc_dict) after it (len(parts) >= 4 here, so the
\* final else of the source is never taken)
QualityStep(folder, base, perc, filename) ==
  LET parts == Parts(filename)
      file_path == PathJoin(folder, filename)
  IN IF Len(parts) = 4
     THEN [base |-> Insert3(base, parts[1], DistrictBlock(parts), parts[4], file_path),
           perc |-> perc]
     ELSE [base |-> base,
           perc |-> Insert4(perc, parts[1], DistrictBlock(parts), parts[4], parts[5],
                            file_path)]

RECURSIVE QualityLoop(_, _, _, _, _)
QualityLoop(folder, files, base, perc, warnings) ==
  IF files = <<>> THEN [base |-> base, perc |-> perc, warnings |-> warnings]
  ELSE LET filename == Head(files)
       IN IF Len(Parts(filename)) < 4
          THEN QualityLoop(folder, Tail(files), base, perc,
                           warnings \cup {Msg("not enough parts", folder, filename)})
          ELSE LET q == QualityStep(folder, base, perc, filename)
               IN QualityLoop(folder, Tail(files), q.base, q.perc, warnings)

\* Faulty variant: no test for an empty file list, two empty dicts returned
build_quality_dicts_unchecked(folder) ==
  IF ~Exists(folder)
  THEN BuildResult(<<None, None>>, {Msg("folder not found", folder, <<>>)}, {}, FALSE)
  ELSE IF ListdirRaises(folder)
  THEN BuildResult(<<Unset, Unset>>, {}, {}, TRUE)
  ELSE LET r == QualityLoop(folder, FilterImage(Listdir(folder)), EmptyDict, EmptyDict, {})
       IN BuildResult(<<Dict(r.base), Dict(r.perc)>>, {}, r.warnings, FALSE)

\* ret is the pair (base_dict, perc_dict)
build_quality_dicts(folder) ==
  IF ~Exists(folder)
  THEN BuildResult(<<None, None>>, {Msg("folder not found", folder, <<>>)}, {}, FALSE)
  ELSE IF ListdirRaises(folder)
  THEN BuildResult(<<Unset, Unset>>, {}, {}, TRUE)
  ELSE LET quality_files == FilterImage(Listdir(folder))
       IN IF quality_files = <<>>
          THEN BuildResult(<<None, None>>, {Msg("no image files found", folder, <<>>)},
                           {}, FALSE)
          ELSE LET r == QualityLoop(folder, quality_files, EmptyDict, EmptyDict, {})
               IN BuildResult(<<Dict(r.base), Dict(r.perc)>>, {}, r.warnings, FALSE)

\* ---------------------------------------------------------------- widgets
Select == <<"s","e","l","e","c","t">>
All == <<"A","l","l">>
\* The value of a selectbox the run did not render
NotRendered == <<"not rendered">>

Selection(st, db, v, pct) ==
  [state |-> st, district_block |-> db, variable |-> v, percentile |-> pct]
NoSelection == Selection(NotRendered, NotRendered, NotRendered, NotRendered)

\* What one run renders: the messages, the selectboxes by label, the images
\* shown by st.image and, per file given to plot_csv, what plot_csv did
Blank ==
  [errors |-> {}, warnings |-> {}, infos |-> {}, widgets |-> {},
   images |-> {}, plots |-> <<>>, writes |-> {}, raised |-> FALSE]

\* The values the three cascaded selectboxes can return for index d: each
\* selectbox offers ["select"] (+ more) + sorted(keys) and is rendered only
\* when the one before it is not "select"
Cascade(d, more) ==
  {Selection(Select, NotRendered, NotRendered, NotRendered)}
  \cup UNION {
    {Selection(st, Select, NotRendered, NotRendered)}
    \cup UNION {
      {Selection(st, db, v, NotRendered) : v \in {Select} \cup more \cup DOMAIN d[st][db]}
      : db \in (DOMAIN d[st]) \ {Select}}
    : st \in (DOMAIN d) \ {Select}}

\* The selectboxes a cascade renders, by label
CascadeWidgets(s, third) ==
  {"Select State"}
  \cup (IF s.district_block # NotRendered THEN {"Select District-Block"} ELSE {})
  \cup (IF s.variable # NotRendered THEN {third} ELSE {})

\* try: Image.open(file_path); st.image(image) except: st.error(...)
ShowImages(u, paths) ==
  [u EXCEPT !.images = @ \cup (paths \ broken_images),
            !.errors = @ \cup {Msg("Error opening", p[1], p[2]) : p \in paths \cap broken_images}]

\* ---------------------------------------------------------------- plot_csv
PlotError(kind) == [chart |-> FALSE, x |-> <<>>, y |-> <<>>, error |-> kind]

plot_csv(file_path) ==
  LET columns == csv_columns[file_path]
  IN IF columns = <<>>
     THEN PlotError("Error processing CSV")
     ELSE IF ~(\E i \in 1..Len(columns) : columns[i] = <<"d","a","t","e">>)
     THEN PlotError("CSV does not have a 'date' column.")
     ELSE LET value_cols == SelectSeq(columns, LAMBDA col : Lower(col) # <<"d","a","t","e">>)
          IN IF value_cols = <<>>
             THEN PlotError("No value column found to plot.")
             ELSE [chart |-> TRUE, x |-> <<"d","a","t","e">>, y |-> value_cols[1], error |-> "none"]

\* The charts and errors of plot_csv on each of paths
Plot(u, paths) ==
  [u EXCEPT !.plots = [p \in paths |-> plot_csv(p)],
            !.errors = @ \cup {Msg(plot_csv(p).error, p[1], p[2]) :
                                 p \in {q \in paths : ~plot_csv(q).chart}}]

\* ---------------------------------------------------------------- sections
\* The Meteorological Variable section once file_dict is truthy
MeteorologicalRender(d, warnings, s) ==
  LET u == [Blank EXCEPT !.warnings = warnings,
                         !.widgets = CascadeWidgets(s, "Select Meteorological Variable")]
  IN IF s.variable \in {NotRendered, Select} THEN u
     ELSE LET vars_here == d[s.state][s.district_block]
          IN IF s.variable = All
             THEN Plot([u EXCEPT !.writes = DOMAIN vars_here],
                       {vars_here[v] : v \in DOMAIN vars_here})
             ELSE IF s.variable \in DOMAIN vars_here
             THEN Plot(u, {vars_here[s.variable]})
             ELSE [u EXCEPT !.errors = @ \cup {Msg("No CSV file found", CsvFolder, <<>>)}]

RunMeteorological ==
  \E b \in {build_file_dict_from_csv(CsvFolder)} :
     /\ section' = "Meteorological Variable"
     /\ file_dict' = b.ret
     /\ base_dict' = Unset /\ perc_dict' = Unset /\ market_dict' = Unset
     /\ IF b.raised
        THEN sel' = NoSelection /\ ui' = [Blank EXCEPT !.raised = TRUE]
        ELSE IF ~Truthy(b.ret)
        THEN /\ sel' = NoSelection
             /\ ui' = [Blank EXCEPT !.errors = b.errors, !.warnings = b.warnings]
        ELSE \E s \in Cascade(b.ret.d, {All}) :
               /\ sel' = s
               /\ ui' = MeteorologicalRender(b.ret.d, b.warnings, s)
     /\ UNCHANGED <<fs, csv_columns, broken_images>>

\* The Market section once market_dict is truthy
MarketRender(d, warnings, s) ==
  LET u == [Blank EXCEPT !.warnings = warnings,
                         !.widgets = CascadeWidgets(s, "Select Market Parameter")]
  IN IF s.variable \in {NotRendered, Select} THEN u
     ELSE LET params == d[s.state][s.district_block]
          IN IF s.variable \in DOMAIN params
             THEN ShowImages(u, {params[s.variable]})
             ELSE [u EXCEPT !.errors = @ \cup {Msg("No image found", MarketFolder, <<>>)}]

RunMarket ==
  \E b \in {build_file_dict_from_folder(MarketFolder)} :
     /\ section' = "Market"
     /\ market_dict' = b.ret
     /\ base_dict' = Unset /\ perc_dict' = Unset /\ file_dict' = Unset
     /\ IF b.raised
        THEN sel' = NoSelection /\ ui' = [Blank EXCEPT !.raised = TRUE]
        ELSE IF ~Truthy(b.ret)
        THEN /\ sel' = NoSelection
             /\ ui' = [Blank EXCEPT !.errors = b.errors, !.warnings = b.warnings]
        ELSE \E s \in Cascade(b.ret.d, {}) :
               /\ sel' = s
               /\ ui' = MarketRender(b.ret.d, b.warnings, s)
     /\ UNCHANGED <<fs, csv_columns, broken_images>>

RunWhatIf ==
  /\ section' = "What If"
  /\ sel' = NoSelection
  /\ ui' = [Blank EXCEPT !.widgets = {"Select What If Scenario"},
                         !.writes = {<<"W","h","a","t"," ","I","f"," ","S","e","c","t","i","o","n">>}]
  /\ file_dict' = Unset /\ base_dict' = Unset /\ perc_dict' = Unset /\ market_dict' = Unset
  /\ UNCHANGED <<fs, csv_columns, broken_images>>

\* "select", "All" and f"At {opt} percentile" for each key of pct_dict
PercentileOptions(pct_dict) ==
  {Select, All} \cup {<<"A","t"," ">> \o opt \o <<" ","p","e","r","c","e","n","t","i","l","e">> : opt \in DOMAIN pct_dict}

\* percentile_selected.replace("At ", "").replace(" percentile", "").strip()
RawPct(percentile_selected) ==
  Strip(ReplaceAll(ReplaceAll(percentile_selected, <<"A","t"," ">>, <<>>), <<" ","p","e","r","c","e","n","t","i","l","e">>, <<>>))

\* perc_dict and state in perc_dict and district_block in ... and quality_param in ...
HasPercentiles(perc, s) ==
  /\ Truthy(perc)
  /\ s.state \in DOMAIN perc.d
  /\ s.district_block \in DOMAIN perc.d[s.state]
  /\ s.variable \in DOMAIN perc.d[s.state][s.district_block]

\* The values the four selectboxes of the Quality section can return
QualityCascade(base, perc) ==
  UNION {IF s.variable \notin {NotRendered, Select, All} /\ HasPercentiles(perc, s)
         THEN {[s EXCEPT !.percentile = p] :
                 p \in PercentileOptions(perc.d[s.state][s.district_block][s.variable])}
         ELSE {s}
         : s \in Cascade(base, {All})}

\* Faulty variant: show_base never cleared
ShowBaseAlways(s) == TRUE

\* show_base: False once a percentile option other than "select" is chosen
ShowBase(s) == s.percentile \in {NotRendered, Select}

\* The percentile branch of the Quality section
PercentileRender(u, perc, s) ==
  IF s.variable \in {Select, All} THEN u
  ELSE IF ~HasPercentiles(perc, s)
  THEN [u EXCEPT !.infos = @ \cup {Msg("No percentile images available", QualityFolder, <<>>)}]
  ELSE LET pct_dict == perc.d[s.state][s.district_block][s.variable]
       IN IF s.percentile = Select THEN u
          ELSE IF s.percentile = All
          THEN ShowImages(u, {pct_dict[k] : k \in DOMAIN pct_dict})
          ELSE IF RawPct(s.percentile) \in DOMAIN pct_dict
          THEN ShowImages(u, {pct_dict[RawPct(s.percentile)]})
          ELSE [u EXCEPT !.errors = @ \cup {Msg("No image found for the selected percentile",
                                               QualityFolder, <<>>)}]

\* The base-image branch of the Quality section
BaseRender(u, base, s) ==
  LET params == base[s.state][s.district_block]
  IN IF ~ShowBase(s) THEN u
     ELSE IF s.variable = All
     THEN ShowImages(u, {params[k] : k \in DOMAIN params})
     ELSE IF s.variable = Select THEN u
     ELSE IF s.variable \in DOMAIN params
     THEN ShowImages(u, {params[s.variable]})
     ELSE [u EXCEPT !.infos = @ \cup {Msg("No base image available", QualityFolder, <<>>)}]

\* The Quality section once base_dict is not None
QualityRender(base, perc, warnings, s) ==
  LET u == [Blank EXCEPT !.warnings = warnings,
                         !.widgets = CascadeWidgets(s, "Select Quality Parameter")
                                     \cup (IF s.percentile # NotRendered
                                           THEN {"Select True vs Predicted"} ELSE {})]
  IN IF s.variable = NotRendered THEN u
     ELSE BaseRender(PercentileRender(u, perc, s), base, s)

RunQuality ==
  \E b \in {build_quality_dicts(QualityFolder)} :
     /\ section' = "Quality"
     /\ base_dict' = b.ret[1]
     /\ perc_dict' = b.ret[2]
     /\ file_dict' = Unset /\ market_dict' = Unset
     /\ IF b.raised
        THEN sel' = NoSelection /\ ui' = [Blank EXCEPT !.raised = TRUE]
        ELSE IF b.ret[1].none
        THEN /\ sel' = NoSelection
             /\ ui' = [Blank EXCEPT !.errors = b.errors, !.warnings = b.warnings,
                                    !.infos = {Msg("No quality images available.",
                                                   QualityFolder, <<>>)}]
        ELSE \E s \in QualityCascade(b.ret[1].d, b.ret[2]) :
               /\ sel' = s
               /\ ui' = QualityRender(b.ret[1].d, b.ret[2], b.warnings, s)
     /\ UNCHANGED <<fs, csv_columns, broken_images>>

Next ==
  \/ RunMeteorological
  \/ RunQuality
  \/ RunMarket
  \/ RunWhatIf

\* ---------------------------------------------------------------- initial states
Missing == [kind |-> "missing", listing |-> <<>>]
NotADirectory == [kind |-> "file", listing |-> <<>>]

\* The listings of a directory holding at most MaxFiles of names, in any order
Listings(names) ==
  {l \in UNION {[1..n -> names] : n \in 0..MaxFiles} :
     \A i, j \in 1..Len(l) : i # j => l[i] # l[j]}
Directories(names) == {[kind |-> "dir", listing |-> l] : l \in Listings(names)}

Listed(folder) == {fs[folder].listing[i] : i \in 1..Len(fs[folder].listing)}
PathsIn(folder) == {PathJoin(folder, n) : n \in Listed(folder)}

\* Before the first run
InitRun ==
  /\ section = "none"
  /\ sel = NoSelection
  /\ file_dict = Unset /\ base_dict = Unset /\ perc_dict = Unset /\ market_dict = Unset
  /\ ui = Blank

\* At most one listed image cannot be opened
InitBroken(folder) == broken_images \in {{}} \cup {{p} : p \in PathsIn(folder)}

MarketNames ==
  {<<"P","u","n","j","a","b","_","A","m","r","i","t","s","a","r","_","A","j","n","a","l","a","_","M","a","x","T","e","m","p","_","s","i","n","c","e","2","0","0","0",".","p","n","g">>,
   <<"P","B","_","A","m","r","_","A","j","n","_","Y","i","e","l","d",".","p","n","g">>,
   <<"P","B","_","A","m","r","_","A","j","n","_","Y","i","e","l","d","_","s","i","n","c","e","1","9","9","0",".","p","n","g">>,
   <<"P","B","_","A","m","r","_","A","j","n","_","Y","i","e","l","d","_","s","i","n","c","e","s","i","n","c","e","1","9","9","0",".","p","n","g">>,
   <<"P","B","_","A","m","r","_","A","j","n","_","T","e","m","p",".","p","n","g">>,
   <<"P","B","_","A","m","r","_","A","j","n","_","T","e","m","p","_","M","a","x","T","e","m","p","_","s","i","n","c","e","1","9","9","0",".","p","n","g">>,
   <<"P","B","_","A","m","r","_","A","j","n","_","T","e","m","p","e","r","a","t","u","r","e",".","p","n","g">>,
   <<"P","B","_","A","m","r","_","A","j","n","_","s","i","n","c","e","2","0","0","0",".","p","n","g">>,
   <<"P","B","_","A","m","r","_","A","j","n",".","p","n","g">>,
   <<"P","B","_","A","m","r","_","A","j","n","_","Y","i","e","l","d",".","v","2",".","p","n","g">>,
   <<"P","B","_","S",".","A",".","S",".","N","a","g","a","r","_","K","h","a","r","a","r","_","Y","i","e","l","d",".","p","n","g">>,
   <<"P","B","_","A","m","r","-","A","j","n","_","T","a","r","n","_","Y","i","e","l","d",".","p","n","g">>,
   <<"P","B","_","A","m","r","_","A","j","n","-","T","a","r","n","_","Y","i","e","l","d",".","p","n","g">>,
   <<"P","B","_","A","m","r","_","A","j","n","_","Y","i","e","l","d",".","j","p","g">>}

InitMarket ==
  /\ fs \in {[f \in Folders |-> IF f = MarketFolder THEN c ELSE Missing] :
               c \in {Missing, NotADirectory} \cup Directories(MarketNames)}
  /\ csv_columns = <<>>
  /\ broken_images = {}
  /\ InitRun

SpecMarket == InitMarket /\ [][Next]_vars

QualityNames ==
  {<<"P","B","_","A","m","r","_","A","j","n","_","A","m","y","l","o","s","e",".","p","n","g">>,
   <<"P","B","_","A","m","r","_","A","j","n","_","A","m","y","l","o","s","e","_","5","0",".","p","n","g">>,
   <<"P","B","_","A","m","r","_","A","j","n","_","A","m","y","l","o","s","e","_","9","0",".","j","p","g">>,
   <<"P","B","_","A","m","r","_","A","j","n","_","A","m","y","l","o","s","e","_","5","0","_","v","2",".","p","n","g">>,
   <<"P","B","_","A","m","r","_","A","j","n","_","A","m","y","l","o","s","e","_","0",".","9","5",".","p","n","g">>,
   <<"P","B","_","A","m","r","_","A","j","n","_","L","e","n","g","t","h","_","5","0",".","p","n","g">>,
   <<"P","B","_","A","m","r","_","A","j","n","_","L","e","n","g","t","h",".","P","N","G">>,
   <<"H","R","_","K","a","r","_","N","i","l","_","A","m","y","l","o","s","e",".","j","p","g">>,
   <<"P","B","_","A","m","r","_","A","j","n",".","p","n","g">>,
   <<"n","o","t","e","s",".","t","x","t">>}

InitQuality ==
  /\ fs \in {[f \in Folders |-> IF f = QualityFolder THEN c ELSE Missing] :
               c \in {Missing, NotADirectory} \cup Directories(QualityNames)}
  /\ csv_columns = <<>>
  /\ InitBroken(QualityFolder)
  /\ InitRun

SpecQuality == InitQuality /\ [][Next]_vars

MetNames ==
  {<<"P","B","_","A","m","r","_","A","j","n","_","R","a","i","n","f","a","l","l",".","c","s","v">>,
   <<"P","B","_","A","m","r","_","A","j","n","_","T","e","m","p","_","s","i","n","c","e","2","0","0","0",".","c","s","v">>,
   <<"P","B","_","S",".","A",".","S",".","N","a","g","a","r","_","K","h","a","r","a","r","_","R","a","i","n","f","a","l","l",".","c","s","v">>,
   <<"P","B","_","A","m","r",".","c","s","v">>,
   <<"n","o","t","e","s",".","t","x","t">>}

Headers ==
  {<<>>,
   <<<<"d","a","t","e">>, <<"r","a","i","n">>>>,
   <<<<"D","a","t","e">>, <<"r","a","i","n">>>>,
   <<<<"r","a","i","n">>, <<"d","a","t","e">>, <<"t","e","m","p">>>>,
   <<<<"d","a","t","e">>>>,
   <<<<"d","a","t","e">>, <<"D","A","T","E">>>>,
   <<<<"r","a","i","n">>, <<"t","e","m","p">>>>}

InitMet ==
  /\ fs \in {[f \in Folders |-> IF f = CsvFolder THEN c ELSE Missing] :
               c \in {Missing, NotADirectory} \cup Directories(MetNames)}
  /\ csv_columns \in [PathsIn(CsvFolder) -> Headers]
  /\ broken_images = {}
  /\ InitRun

SpecMet == InitMet /\ [][Next]_vars

\* The whole portal: each of the three folders missing, a plain file, or a
\* directory of a well-formed file, a malformed one and one of another kind;
\* the sections read one folder each, so at most one directory holds files
AppNames(folder) ==
  IF folder = CsvFolder
  THEN {<<"P","B","_","A","m","r","_","A","j","n","_","R","a","i","n","f","a","l","l",".","c","s","v">>, <<"P","B","_","A","m","r",".","c","s","v">>, <<"n","o","t","e","s",".","t","x","t">>}
  ELSE IF folder = QualityFolder
  THEN {<<"P","B","_","A","m","r","_","A","j","n","_","A","m","y","l","o","s","e",".","p","n","g">>, <<"P","B","_","A","m","r","_","A","j","n","_","A","m","y","l","o","s","e","_","5","0",".","p","n","g">>, <<"n","o","t","e","s",".","t","x","t">>}
  ELSE {<<"P","B","_","A","m","r","_","A","j","n","_","Y","i","e","l","d",".","p","n","g">>, <<"P","B","_","A","m","r",".","p","n","g">>, <<"n","o","t","e","s",".","t","x","t">>}

Init ==
  /\ fs \in UNION {{[g \in Folders |-> IF g = focus THEN c ELSE e[g]] :
                       c \in {Missing, NotADirectory} \cup Directories(AppNames(focus)),
                       e \in [Folders -> {Missing, NotADirectory,
                                          [kind |-> "dir", listing |-> <<>>]}]}
                    : focus \in Folders}
  /\ csv_columns = [p \in PathsIn(CsvFolder) |-> <<<<"d","a","t","e">>, <<"r","a","i","n">>>>]
  /\ broken_images = {}
  /\ InitRun

Spec == Init /\ [][Next]_vars

(***************************************************************************)
(* Properties                                                              *)
(***************************************************************************)
\* The filename without its extension (the text before its last "."), and
\* the underscore-delimited tokens of that
Stem(filename) ==
  LET p == Split(filename, ".")
  IN IF Len(p) = 1 THEN filename ELSE Join(SubSeq(p, 1, Len(p) - 1), <<".">>)
StemTokens(filename) == Split(Stem(filename), "_")

\* The files of a folder's listing that its builder scans
CsvListed == {n \in Listed(CsvFolder) : EndsWith(n, <<".","c","s","v">>)}
PngListed == {n \in Listed(MarketFolder) : EndsWith(n, <<".","p","n","g">>)}
ImageListed ==
  {n \in Listed(QualityFolder) :
     EndsWith(Lower(n), <<".","j","p","g">>) \/ EndsWith(Lower(n), <<".","p","n","g">>)}

IsDict(v) == v.set /\ ~v.none

\* l with a leading "Temp" spelled out as "Temperature"
TempSpelledOut(l) ==
  IF Len(l) >= 4 /\ SubSeq(l, 1, 4) = <<"T","e","m","p">>
  THEN <<"T","e","m","p","e","r","a","t","u","r","e">> \o SubSeq(l, 5, Len(l))
  ELSE l

\* Position of name n in the listing of folder
Position(folder, n) == CHOOSE i \in 1..Len(fs[folder].listing) : fs[folder].listing[i] = n

\* C1: each builder's index holds a leaf for a scanned file exactly when the
\* extension-stripped filename has at least 4 underscore-delimited tokens
\* (a malformed file is skipped, the scan goes on, every other file is indexed).
C1_IndexedIffFourStemTokens ==
  /\ (section = "Meteorological Variable" /\ IsDict(file_dict)) =>
       \A n \in CsvListed :
         (PathJoin(CsvFolder, n) \in Leaves3(file_dict.d)) <=> (Len(StemTokens(n)) >= 4)
  /\ (section = "Market" /\ IsDict(market_dict)) =>
       \A n \in PngListed :
         (PathJoin(MarketFolder, n) \in Leaves3(market_dict.d)) <=> (Len(StemTokens(n)) >= 4)
  /\ (section = "Quality" /\ IsDict(base_dict)) =>
       \A n \in ImageListed :
         (PathJoin(QualityFolder, n) \in Leaves3(base_dict.d) \cup Leaves4(perc_dict.d))
           <=> (Len(StemTokens(n)) >= 4)

\* C9: plot_csv draws a chart exactly when the header has a column named
\* "date" up to case and at least one other column, and then plots the first
\* non-date column against date; a header without them gets an error and no
\* chart, and in "All" mode every variable of the district-block is given to
\* plot_csv.
C9_ChartIffDateUpToCase ==
  section = "Meteorological Variable" =>
    /\ (IsDict(file_dict) /\ sel.variable = All) =>
         DOMAIN ui.plots = {file_dict.d[sel.state][sel.district_block][v] :
                              v \in DOMAIN file_dict.d[sel.state][sel.district_block]}
    /\ \A p \in DOMAIN ui.plots :
      LET columns == csv_columns[p]
          dates == {i \in 1..Len(columns) : Lower(columns[i]) = <<"d","a","t","e">>}
          others == {i \in 1..Len(columns) : Lower(columns[i]) # <<"d","a","t","e">>}
      IN /\ ui.plots[p].chart <=> (dates # {} /\ others # {})
         /\ ui.plots[p].chart =>
              ui.plots[p].y = columns[CHOOSE i \in others : \A j \in others : i <= j]

HasKey3(d, a, b, c) == a \in DOMAIN d /\ b \in DOMAIN d[a] /\ c \in DOMAIN d[a][b]
Keys3(d) ==
  UNION {UNION {{<<a, b, c>> : c \in DOMAIN d[a][b]} : b \in DOMAIN d[a]} : a \in DOMAIN d}
Digits == {"0", "1", "2", "3", "4", "5", "6", "7", "8", "9"}
MarketBuilt == section = "Market" /\ IsDict(market_dict)
LastPng(n) == \A m \in PngListed : Position(MarketFolder, m) <= Position(MarketFolder, n)

\* A .png filename State_District_Block_Variable[_sinceYYYY].png: at least 4
\* tokens, and a last token that starts with "since" is "since" and 4 digits
FollowsGrammar(n) ==
  LET t == StemTokens(n)
      last == t[Len(t)]
  IN /\ EndsWith(n, <<".","p","n","g">>)
     /\ Len(t) >= 4
     /\ StartsWith(last, <<"s","i","n","c","e">>) =>
          Len(last) = 9 /\ \A i \in 6..9 : last[i] \in Digits

\* C2: every scanned filename of the grammar is decoded, encoding what was
\* decoded gives the filename back, and it keeps a leaf of its own in the
\* index (no other filename decodes to its entry).
C2_RoundTrip ==
  MarketBuilt =>
    \A n \in PngListed :
      FollowsGrammar(n) =>
        /\ Len(Parts(n)) >= 4
        /\ Encode(Decode(n)) = n
        /\ PathJoin(MarketFolder, n) \in Leaves3(market_dict.d)

\* C3 as claimed: a last variable sub-token starting with "since" is always
\* split off and the label is "<name> since <text after since>".
C3_LabelIsTextAfterSince ==
  MarketBuilt =>
    \A n \in PngListed : \A parts \in {Parts(n)} :
      LET k == Len(parts)
      IN (k >= 4 /\ StartsWith(parts[k], <<"s","i","n","c","e">>)) =>
           HasKey3(market_dict.d, parts[1], DistrictBlock(parts),
                   TempSpelledOut(Join(SubSeq(parts, 4, k - 1), <<"_">>) \o <<" ","s","i","n","c","e"," ">>
                                  \o SubSeq(parts[k], 6, Len(parts[k]))))

\* C3 as amended: with two or more variable sub-tokens, the last starting
\* with "since", the label is "<name> since <year>", <name> the other
\* sub-tokens joined by "_" and <year> the last sub-token with every "since"
\* removed and surrounding whitespace stripped; a variable segment of one
\* sub-token is kept whole.  (The label is stored after the Temp relabel.)
C3_SinceQualifierSplit ==
  MarketBuilt =>
    \A n \in PngListed : \A parts \in {Parts(n)} :
      LET k == Len(parts)
          label == IF k >= 5
                   THEN Join(SubSeq(parts, 4, k - 1), <<"_">>) \o <<" ","s","i","n","c","e"," ">>
                        \o Strip(ReplaceAll(parts[k], <<"s","i","n","c","e">>, <<>>))
                   ELSE parts[4]
      IN (k >= 4 /\ StartsWith(parts[k], <<"s","i","n","c","e">>)) =>
           \A stored \in {TempSpelledOut(label)} :
             /\ HasKey3(market_dict.d, parts[1], DistrictBlock(parts), stored)
             /\ LastPng(n) =>
                  market_dict.d[parts[1]][DistrictBlock(parts)][stored]
                    = PathJoin(MarketFolder, n)

C3_Witness ==
  /\ MarketBuilt
  /\ HasKey3(market_dict.d, <<"P","B">>, <<"A","m","r","-","A","j","n">>, <<"Y","i","e","l","d"," ","s","i","n","c","e"," ","1","9","9","0">>)
  /\ market_dict.d[<<"P","B">>][<<"A","m","r","-","A","j","n">>][<<"Y","i","e","l","d"," ","s","i","n","c","e"," ","1","9","9","0">>]
       = PathJoin(MarketFolder, <<"P","B","_","A","m","r","_","A","j","n","_","Y","i","e","l","d","_","s","i","n","c","e","s","i","n","c","e","1","9","9","0",".","p","n","g">>)

\* C4: a label that begins with "Temp" is stored with that leading "Temp"
\* replaced by "Temperature" and the rest of it unchanged; any other label is
\* stored unchanged; and the index holds no other labels.
C4_TempRelabel ==
  MarketBuilt =>
    /\ \A n \in PngListed : \A parts \in {Parts(n)} :
         Len(parts) >= 4 =>
           \A l \in {SinceLabel(SubSeq(parts, 4, Len(parts)))} :
             \A stored \in {IF StartsWith(l, <<"T","e","m","p">>)
                             THEN <<"T","e","m","p","e","r","a","t","u","r","e">> \o SubSeq(l, 5, Len(l))
                             ELSE l} :
               /\ HasKey3(market_dict.d, parts[1], DistrictBlock(parts), stored)
               /\ LastPng(n) =>
                    market_dict.d[parts[1]][DistrictBlock(parts)][stored]
                      = PathJoin(MarketFolder, n)
    /\ \A key \in Keys3(market_dict.d) :
         \E n \in PngListed : \E parts \in {Parts(n)} :
           /\ Len(parts) >= 4
           /\ key[3] = TempSpelledOut(SinceLabel(SubSeq(parts, 4, Len(parts))))

C4_Witness ==
  /\ MarketBuilt
  /\ HasKey3(market_dict.d, <<"P","B">>, <<"A","m","r","-","A","j","n">>, <<"T","e","m","p","e","r","a","t","u","r","e","_","M","a","x","T","e","m","p"," ","s","i","n","c","e"," ","1","9","9","0">>)
  /\ PathJoin(MarketFolder, <<"P","B","_","A","m","r","_","A","j","n","_","T","e","m","p","_","M","a","x","T","e","m","p","_","s","i","n","c","e","1","9","9","0",".","p","n","g">>) \in ui.images

C5File == <<"P","u","n","j","a","b","_","A","m","r","i","t","s","a","r","_","A","j","n","a","l","a","_","M","a","x","T","e","m","p","_","s","i","n","c","e","2","0","0","0",".","p","n","g">>

\* C5 as claimed: the path of Punjab_Amritsar_Ajnala_MaxTemp_since2000.png is
\* stored at Index["Punjab"]["Amritsar-Ajnala"]["MaxTemperature since 2000"].
C5_MaxTemperatureLabel ==
  (MarketBuilt /\ C5File \in PngListed) =>
    /\ HasKey3(market_dict.d, <<"P","u","n","j","a","b">>, <<"A","m","r","i","t","s","a","r","-","A","j","n","a","l","a">>, <<"M","a","x","T","e","m","p","e","r","a","t","u","r","e"," ","s","i","n","c","e"," ","2","0","0","0">>)
    /\ market_dict.d[<<"P","u","n","j","a","b">>][<<"A","m","r","i","t","s","a","r","-","A","j","n","a","l","a">>][<<"M","a","x","T","e","m","p","e","r","a","t","u","r","e"," ","s","i","n","c","e"," ","2","0","0","0">>]
         = PathJoin(MarketFolder, C5File)

\* C5 as amended: the path is stored at
\* Index["Punjab"]["Amritsar-Ajnala"]["MaxTemp since 2000"], and the State has
\* no other District-Block or label from this file.
C5_MaxTempLabel ==
  (MarketBuilt /\ C5File \in PngListed) =>
    /\ HasKey3(market_dict.d, <<"P","u","n","j","a","b">>, <<"A","m","r","i","t","s","a","r","-","A","j","n","a","l","a">>, <<"M","a","x","T","e","m","p"," ","s","i","n","c","e"," ","2","0","0","0">>)
    /\ market_dict.d[<<"P","u","n","j","a","b">>][<<"A","m","r","i","t","s","a","r","-","A","j","n","a","l","a">>][<<"M","a","x","T","e","m","p"," ","s","i","n","c","e"," ","2","0","0","0">>]
         = PathJoin(MarketFolder, C5File)
    /\ DOMAIN market_dict.d[<<"P","u","n","j","a","b">>] = {<<"A","m","r","i","t","s","a","r","-","A","j","n","a","l","a">>}
    /\ DOMAIN market_dict.d[<<"P","u","n","j","a","b">>][<<"A","m","r","i","t","s","a","r","-","A","j","n","a","l","a">>] = {<<"M","a","x","T","e","m","p"," ","s","i","n","c","e"," ","2","0","0","0">>}

C5_Witness ==
  /\ MarketBuilt
  /\ sel.variable = <<"M","a","x","T","e","m","p"," ","s","i","n","c","e"," ","2","0","0","0">>
  /\ PathJoin(MarketFolder, C5File) \in ui.images

\* The keys under which the CSV-mode builder files the stem of png filename n
CsvKeys(n) == Keys3(CsvStep(CsvFolder, EmptyDict, Split(n, ".")[1] \o <<".","c","s","v">>))

\* C8 as claimed: the CSV-mode builder files a stem under the State,
\* District-Block and VariableLabel keys the image-mode builder files it under.
C8_SameKeysInBothModes ==
  MarketBuilt =>
    \A n \in PngListed :
      Len(Parts(n)) >= 4 =>
        \A key \in CsvKeys(n) : HasKey3(market_dict.d, key[1], key[2], key[3])

\* C8 as amended: both modes file a stem under the same State and
\* District-Block; the CSV mode keeps the variable segment as it is, so the
\* image mode files it under that same label exactly when it neither splits
\* a "since" qualifier off nor relabels a leading "Temp".
C8_SameRegionKeysRawVariable ==
  MarketBuilt =>
    \A n \in PngListed : \A parts \in {Parts(n)} :
      LET k == Len(parts)
          raw == Join(SubSeq(parts, 4, k), <<"_">>)
      IN k >= 4 =>
           \A key \in CsvKeys(n) :
             /\ key[1] = parts[1] /\ key[1] \in DOMAIN market_dict.d
             /\ key[2] = parts[2] \o <<"-">> \o parts[3]
             /\ key[2] \in DOMAIN market_dict.d[key[1]]
             /\ key[3] = raw
             /\ LastPng(n) =>
                  ((/\ HasKey3(market_dict.d, key[1], key[2], key[3])
                    /\ market_dict.d[key[1]][key[2]][key[3]] = PathJoin(MarketFolder, n))
                   <=> ~((k >= 5 /\ StartsWith(parts[k], <<"s","i","n","c","e">>))
                         \/ StartsWith(raw, <<"T","e","m","p">>)))

C8_Witness ==
  /\ MarketBuilt
  /\ <<"P","B","_","A","m","r","_","A","j","n","_","T","e","m","p",".","p","n","g">> \in PngListed
  /\ HasKey3(market_dict.d, <<"P","B">>, <<"A","m","r","-","A","j","n">>, <<"T","e","m","p","e","r","a","t","u","r","e">>)
  /\ ~HasKey3(market_dict.d, <<"P","B">>, <<"A","m","r","-","A","j","n">>, <<"T","e","m","p">>)

QualityBuilt == section = "Quality" /\ IsDict(base_dict)
HasKey4(d, a, b, c, e) == HasKey3(d, a, b, c) /\ e \in DOMAIN d[a][b][c]
Keys4(d) == UNION {{<<a>> \o k : k \in Keys3(d[a])} : a \in DOMAIN d}

\* The index key C6 gives an accepted image filename: three tokens and the
\* District-Block for 4 tokens, token 4 added for 5 or more
QualityKey(n) ==
  LET parts == Parts(n)
  IN IF Len(parts) = 4
     THEN <<parts[1], parts[2] \o <<"-">> \o parts[3], parts[4]>>
     ELSE <<parts[1], parts[2] \o <<"-">> \o parts[3], parts[4], parts[5]>>

\* A file scanned after n is filed under the key of n
Overwritten(n) ==
  \E m \in ImageListed :
    /\ Position(QualityFolder, m) > Position(QualityFolder, n)
    /\ Len(Parts(m)) >= 4
    /\ QualityKey(m) = QualityKey(n)

\* C6: an accepted image file (4 or more tokens of the name before its first
\* ".") is filed in one index only and under one key only: with exactly 4
\* tokens in base[State][District-Block][token 3], with 5 or more in
\* perc[State][District-Block][token 3][token 4], whatever the tokens after
\* index 4 are; its path stays there unless a file scanned later has that key.
C6_OneIndexOneKey ==
  QualityBuilt =>
    \A n \in ImageListed :
      LET key == QualityKey(n)
          path == PathJoin(QualityFolder, n)
      IN Len(Parts(n)) >= 4 =>
           IF Len(Parts(n)) = 4
           THEN /\ HasKey3(base_dict.d, key[1], key[2], key[3])
                /\ path \notin Leaves4(perc_dict.d)
                /\ \A k \in Keys3(base_dict.d) : base_dict.d[k[1]][k[2]][k[3]] = path => k = key
                /\ ~Overwritten(n) => base_dict.d[key[1]][key[2]][key[3]] = path
           ELSE /\ HasKey4(perc_dict.d, key[1], key[2], key[3], key[4])
                /\ path \notin Leaves3(base_dict.d)
                /\ \A k \in Keys4(perc_dict.d) :
                     perc_dict.d[k[1]][k[2]][k[3]][k[4]] = path => k = key
                /\ ~Overwritten(n) => perc_dict.d[key[1]][key[2]][key[3]][key[4]] = path

C6_Witness ==
  /\ QualityBuilt
  /\ HasKey3(base_dict.d, <<"P","B">>, <<"A","m","r","-","A","j","n">>, <<"A","m","y","l","o","s","e">>)
  /\ HasKey4(perc_dict.d, <<"P","B">>, <<"A","m","r","-","A","j","n">>, <<"A","m","y","l","o","s","e">>, <<"5","0">>)
  /\ perc_dict.d[<<"P","B">>][<<"A","m","r","-","A","j","n">>][<<"A","m","y","l","o","s","e">>][<<"5","0">>]
       = PathJoin(QualityFolder, <<"P","B","_","A","m","r","_","A","j","n","_","A","m","y","l","o","s","e","_","5","0","_","v","2",".","p","n","g">>)

\* C10: in the Quality section a displayed percentile image belongs to the
\* selected state, district-block and quality parameter, and the base index
\* holds an entry for those three; and once a percentile option other than
\* "select" is chosen no base image is displayed in that run.
C10_PercentileNeedsBase ==
  QualityBuilt =>
    /\ \A p \in ui.images \cap Leaves4(perc_dict.d) :
         /\ HasKey3(base_dict.d, sel.state, sel.district_block, sel.variable)
         /\ HasKey3(perc_dict.d, sel.state, sel.district_block, sel.variable)
         /\ \E pct \in DOMAIN perc_dict.d[sel.state][sel.district_block][sel.variable] :
              perc_dict.d[sel.state][sel.district_block][sel.variable][pct] = p
    /\ sel.percentile \notin {NotRendered, Select} =>
         ui.images \cap Leaves3(base_dict.d) = {}

C10_Witness ==
  /\ QualityBuilt
  /\ sel.percentile = <<"A","t"," ","5","0"," ","p","e","r","c","e","n","t","i","l","e">>
  /\ ui.images = {PathJoin(QualityFolder, <<"P","B","_","A","m","r","_","A","j","n","_","A","m","y","l","o","s","e","_","5","0",".","p","n","g">>)}
  /\ PathJoin(QualityFolder, <<"P","B","_","A","m","r","_","A","j","n","_","A","m","y","l","o","s","e",".","p","n","g">>) \in Leaves3(base_dict.d)

\* The folder is not there, or is a directory none of whose files ends in exts
NothingToScan(folder, exts, fold) ==
  \/ fs[folder].kind = "missing"
  \/ /\ fs[folder].kind = "dir"
     /\ \A n \in Listed(folder) : \A e \in exts :
          ~EndsWith(IF fold THEN Lower(n) ELSE n, e)

\* The one error a builder reports then
ScanError(folder, what) ==
  {Msg(IF fs[folder].kind = "missing" THEN "folder not found" ELSE what, folder, <<>>)}

\* C7: when its folder does not exist or holds no file of the target
\* extension, the builder reports an error and returns None ((None, None) for
\* the quality builder), nothing is raised, and the section renders no
\* selectbox.
C7_NothingToScan ==
  /\ (section = "Meteorological Variable" /\ NothingToScan(CsvFolder, {<<".","c","s","v">>}, FALSE)) =>
       /\ file_dict = None
       /\ ui.errors = ScanError(CsvFolder, "no CSV files found")
       /\ ~ui.raised /\ ui.widgets = {} /\ sel = NoSelection
  /\ (section = "Market" /\ NothingToScan(MarketFolder, {<<".","p","n","g">>}, FALSE)) =>
       /\ market_dict = None
       /\ ui.errors = ScanError(MarketFolder, "no PNG files found")
       /\ ~ui.raised /\ ui.widgets = {} /\ sel = NoSelection
  /\ (section = "Quality" /\ NothingToScan(QualityFolder, {<<".","j","p","g">>, <<".","p","n","g">>}, TRUE)) =>
       /\ base_dict = None /\ perc_dict = None
       /\ ui.errors = ScanError(QualityFolder, "no image files found")
       /\ ~ui.raised /\ ui.widgets = {} /\ sel = NoSelection

C7_Witness ==
  /\ section = "Quality"
  /\ fs[QualityFolder].kind = "dir"
  /\ Listed(QualityFolder) = {<<"n","o","t","e","s",".","t","x","t">>}
  /\ base_dict = None
  /\ ui.infos # {}

====
